---- MODULE Spec2Model ----
(***************************************************************************)
(* Model of deepspeed/utils/timer.py:                                      *)
(*   CudaEventTimer, SynchronizedWallClockTimer.Timer, ThroughputTimer and *)
(*   trim_mean.                                                            *)
(*                                                                         *)
(* Two specifications are given.  Spec drives one named Timer together     *)
(* with the device stream that completes recorded CUDA events              *)
(* asynchronously.  SpecThroughput drives one ThroughputTimer against the  *)
(* host wall clock (time.time()).                                          *)
(*                                                                         *)
(* Time is counted in integer ticks.  Quotients (numpy.mean, the samples   *)
(* per second rate) are kept as exact fractions num/den; floating-point    *)
(* rounding is not modelled.                                               *)
(***************************************************************************)
EXTENDS Integers, Sequences, FiniteSets, TLC

(* ------------------------------ bounds --------------------------------- *)
\* number of CUDA events one behaviour may create
MaxEvents == 5
\* largest value of the host wall clock
MaxClock == 6
\* largest number of ThroughputTimer.start() calls in one behaviour
MaxSteps == 5
\* largest number of update_epoch_count() calls in one behaviour
MaxEpochs == 1

(* --------------------------- representation ---------------------------- *)
\* Python None for an event reference (event ids are 1, 2, ...)
NoneEvent == 0
\* Python None for elapsed_records (recorded durations are never negative)
NoneRecords == <<-1>>
\* device timestamp of an event the device has not reached yet
Pending == -1
\* device time that may pass between two events of the stream, in ticks
Delays == {0, 1, 2}
\* the one delay of the device under the fair specification
DelayFair == 1
\* longest list handed to trim_mean on its own
MaxLen == 5
\* the samples such a list is made of
Samples == {0, 1, 4}
\* the values of trim_percent tried, as <<numerator, denominator>>
TrimPercents ==
    { <<-1, 10>>, <<0, 1>>, <<1, 10>>, <<3, 10>>, <<1, 2>>, <<1, 1>>, <<11, 10>> }
\* the time the idle device of the registry specification takes for an event
DelayIdle == 1
\* the timer names used with the registry
Names == {"forward", "backward"}
\* the lists of names handed to log and get_mean
NameLists == { <<"forward">>, <<"backward">>, <<"forward", "backward">> }
\* the values of the normalizer argument tried
Normalizers == {0, 2}

VARIABLES
    timer,      \* the SynchronizedWallClockTimer.Timer object
    stream,     \* events recorded on the current stream, not yet completed
    stamp,      \* device timestamp of every event (Pending until completed)
    devTime,    \* device clock
    nextEvent,  \* id of the next torch.cuda.Event to be created
    pc,         \* host position: "idle", or inside elapsed()
    frame,      \* locals of the elapsed() call in progress
    last,       \* history: the call that returned last
    prev,       \* history: the call that returned before last
    acct,       \* history: accounting of closed / returned intervals
    tput,       \* the ThroughputTimer object
    clock,      \* host wall clock, time.time()
    tlast,      \* history: the last ThroughputTimer call
    cyc,        \* history: wall-clock durations of the start()/stop() cycles
    tm,         \* a call of trim_mean: its arguments and its outcome
    timers,     \* SynchronizedWallClockTimer.timers: name -> Timer
    rlast       \* history: the last call made on the registry

timerVars == <<timer, stream, stamp, devTime, nextEvent, pc, frame, last, prev, acct>>
tputVars == <<tput, clock, tlast, cyc>>
trimVars == <<tm>>
regVars == <<timers, rlast>>
vars == <<timer, stream, stamp, devTime, nextEvent, pc, frame, last, prev, acct,
          tput, clock, tlast, cyc, tm, timers, rlast>>

(* ------------------------------ helpers -------------------------------- *)
RECURSIVE SumSeq(_)
\* Python sum(list)
SumSeq(s) == IF s = <<>> THEN 0 ELSE Head(s) + SumSeq(Tail(s))

RECURSIVE Insert(_, _)
Insert(x, s) ==
    IF s = <<>> THEN <<x>>
    ELSE IF x <= Head(s) THEN <<x>> \o s
    ELSE <<Head(s)>> \o Insert(x, Tail(s))

RECURSIVE SortAsc(_)
\* list.sort()
SortAsc(s) == IF s = <<>> THEN <<>> ELSE Insert(Head(s), SortAsc(Tail(s)))

\* Python slice s[lo:hi] for 0 <= lo, with hi possibly below lo
Slice(s, lo, hi) ==
    LET h == IF hi < 0 THEN 0 ELSE IF hi > Len(s) THEN Len(s) ELSE hi
        l == IF lo > Len(s) THEN Len(s) ELSE lo
    IN  IF h <= l THEN <<>> ELSE SubSeq(s, l + 1, h)

\* mutant of RoundHalfEven: ties go up
RoundHalfUp(num, den) ==
    LET q == num \div den
        r == num % den
    IN  IF 2 * r < den THEN q ELSE q + 1

\* Python round(num/den) for num >= 0, den > 0: ties go to the even integer
RoundHalfEven(num, den) ==
    LET q == num \div den
        r == num % den
    IN  IF 2 * r < den THEN q
        ELSE IF 2 * r > den THEN q + 1
        ELSE IF q % 2 = 0 THEN q ELSE q + 1

(* ------------------------------ trim_mean ------------------------------ *)
\* trim_mean(data, trim_percent) with trim_percent = pn/pd.  ok is FALSE when
\* the call raises (data is None, or the assertion on trim_percent fails);
\* sorted is data after the in-place sort; the mean is num/den, den = 0
\* standing for numpy's nan of an empty slice.
trim_mean(data, pn, pd) ==
    IF data = NoneRecords \/ ~(pn >= 0 /\ pn <= pd)
    THEN [ok |-> FALSE, sorted |-> data, num |-> 0, den |-> 0]
    ELSE LET n == Len(data)
             sorted == SortAsc(data)
             k == RoundHalfEven(n * pn, pd)
             kept == Slice(sorted, k, n - k)
         IN  [ok |-> TRUE, sorted |-> sorted, num |-> SumSeq(kept), den |-> Len(kept)]

\* no call of trim_mean made
NoTrim == [input |-> <<>>, data |-> <<>>, pn |-> 0, pd |-> 1,
           called |-> FALSE, ok |-> TRUE, num |-> 0, den |-> 0]

\* a list and a trim_percent ready to be handed to trim_mean
TrimInit ==
    \E n \in 0..MaxLen : \E data \in [1..n -> Samples] : \E p \in TrimPercents :
        tm = [NoTrim EXCEPT !.input = data, !.data = data, !.pn = p[1], !.pd = p[2]]

(* --------------------------- CudaEventTimer ---------------------------- *)
CudaEventTimer(start_event, end_event) ==
    [start_event |-> start_event, end_event |-> end_event]

\* mutant of Synchronized: get_elapsed_msec does not wait for the end event
Synchronized_without_wait(et) == TRUE

\* end_event.synchronize() has returned: the device completed the end event
Synchronized(et) == stamp[et.end_event] # Pending

\* start_event.elapsed_time(end_event)
elapsed_time(et) == stamp[et.end_event] - stamp[et.start_event]

(* -------------------- SynchronizedWallClockTimer.Timer ----------------- *)
\* Timer.__init__
Timer(name) ==
    [name_ |-> name, started_ |-> FALSE, event_timers |-> <<>>,
     start_event |-> NoneEvent, elapsed_records |-> NoneRecords]

\* mutant of start_assert: the assertion is missing
start_assert_missing(self) == TRUE

\* the condition asserted by Timer.start
start_assert(self) == ~self.started_

\* the condition asserted by Timer.stop
stop_assert(self) == self.started_

\* body of Timer.start past the assertion; ev is the new event
Timer_start(self, ev) ==
    [self EXCEPT !.start_event = ev, !.started_ = TRUE]

\* mutant of Timer_stop: the held start event is not cleared
Timer_stop_keeps_event(self, ev) ==
    [self EXCEPT !.event_timers = Append(@, CudaEventTimer(self.start_event, ev)),
                 !.started_ = FALSE]

\* body of Timer.stop past the assertion; ev is the new end event
Timer_stop(self, ev) ==
    [self EXCEPT !.event_timers = Append(@, CudaEventTimer(self.start_event, ev)),
                 !.start_event = NoneEvent,
                 !.started_ = FALSE]

\* mutant of Timer_reset: the buffered measurements are not cleared
Timer_reset_keeps_buffer(self) ==
    [self EXCEPT !.started_ = FALSE, !.start_event = NoneEvent,
                 !.elapsed_records = NoneRecords]

\* Timer.reset
Timer_reset(self) ==
    [self EXCEPT !.started_ = FALSE, !.start_event = NoneEvent,
                 !.elapsed_records = NoneRecords, !.event_timers = <<>>]

\* mutant of Timer_drain: event_timers.clear() is missing
Timer_drain_keeps_buffer(self, records) ==
    [self EXCEPT !.elapsed_records = records]

\* Timer._get_elapsed_msec once every buffered measurement has been read:
\* records is the list built by the comprehension
Timer_drain(self, records) ==
    [self EXCEPT !.elapsed_records = records, !.event_timers = <<>>]

\* mutant of Record: the event is created but never recorded on the stream
Record_not_enqueued(ev) ==
    /\ stream' = stream
    /\ nextEvent' = ev + 1

\* torch.cuda.Event(...).record(): the event joins the stream, not yet reached
Record(ev) ==
    /\ stream' = Append(stream, ev)
    /\ nextEvent' = ev + 1

NoCall == [op |-> "none", ok |-> TRUE, reset |-> FALSE, value |-> 0,
           num |-> 0, den |-> 0, records |-> <<>>, inflight |-> <<0, 0>>,
           before |-> Timer("t")]

NoPrev == [op |-> "none", reset |-> FALSE, value |-> 0, records |-> <<>>,
           started_ |-> FALSE, buffered |-> 0]

Call(op, ok, before) == [NoCall EXCEPT !.op = op, !.ok = ok, !.before = before]

\* history kept with an elapsed() call in progress: the timer as the call
\* found it and the interval its implicit stop() closed, <<0, 0>> for none
NoHist == [before |-> Timer("t"), inflight |-> <<0, 0>>]

\* mutant of elapsed_locals: started_ is read after the implicit stop
elapsed_locals_after_stop(self, reset, hist) ==
    [reset |-> reset, started_ |-> FALSE, records |-> <<>>, hist |-> hist]

\* locals of Timer.elapsed on entry: the reset argument, started_ saved at
\* line 76 before the implicit stop, and the list the comprehension builds
elapsed_locals(self, reset, hist) ==
    [reset |-> reset, started_ |-> self.started_, records |-> <<>>, hist |-> hist]

\* locals of elapsed() when no call is in progress
NoFrame == [reset |-> FALSE, started_ |-> FALSE, records |-> <<>>, hist |-> NoHist]

\* accounting history before the first interval.  It follows the intervals
\* closed by stop() (closed), those whose duration an elapsed() call has
\* returned (counted) and the sum of the values returned (returned), up to the
\* first reset() made by the user and not further.
NoAcct == [closed |-> <<>>, counted |-> <<>>, returned |-> 0, explicitReset |-> FALSE]

Closes(et) ==
    IF acct.explicitReset THEN acct ELSE [acct EXCEPT !.closed = Append(@, et)]

Counts(ets, elapsed_) ==
    IF acct.explicitReset THEN acct
    ELSE [acct EXCEPT !.counted = @ \o ets, !.returned = @ + elapsed_]

TimerInit ==
    /\ timer = Timer("t")
    /\ stream = <<>>
    /\ stamp = [e \in 1..MaxEvents |-> Pending]
    /\ devTime = 0
    /\ nextEvent = 1
    /\ pc = "idle"
    /\ frame = NoFrame
    /\ last = NoCall
    /\ prev = NoPrev
    /\ acct = NoAcct

\* the call c returns: shift the call history.  Of the call before the last
\* one only elapsed() and reset() are remembered.
Return(c) ==
    /\ prev' = IF last.op \in {"elapsed", "reset"}
               THEN [op |-> last.op, reset |-> last.reset, value |-> last.value,
                     records |-> last.records, started_ |-> last.before.started_,
                     buffered |-> Len(last.before.event_timers)]
               ELSE NoPrev
    /\ last' = c

\* Timer.start(): the assertion fails when the timer is running
Start ==
    /\ pc = "idle"
    /\ IF ~start_assert(timer)
       THEN /\ Return(Call("start", FALSE, timer))
            /\ UNCHANGED <<timer, stream, nextEvent, acct>>
       ELSE /\ nextEvent <= MaxEvents
            /\ timer' = Timer_start(timer, nextEvent)
            /\ Record(nextEvent)
            /\ Return(Call("start", TRUE, timer))
            /\ UNCHANGED acct
    /\ UNCHANGED <<stamp, devTime, pc, frame>>
    /\ UNCHANGED <<tputVars, trimVars, regVars>>

\* Timer.stop(): the assertion fails when the timer is not running
Stop ==
    /\ pc = "idle"
    /\ IF ~stop_assert(timer)
       THEN /\ Return(Call("stop", FALSE, timer))
            /\ UNCHANGED <<timer, stream, nextEvent, acct>>
       ELSE /\ nextEvent <= MaxEvents
            /\ timer' = Timer_stop(timer, nextEvent)
            /\ Record(nextEvent)
            /\ Return(Call("stop", TRUE, timer))
            /\ acct' = Closes(CudaEventTimer(timer.start_event, nextEvent))
    /\ UNCHANGED <<stamp, devTime, pc, frame>>
    /\ UNCHANGED <<tputVars, trimVars, regVars>>

\* Timer.reset(), called by the user
Reset ==
    /\ pc = "idle"
    /\ timer' = Timer_reset(timer)
    /\ Return(Call("reset", TRUE, timer))
    /\ acct' = [NoAcct EXCEPT !.explicitReset = TRUE]
    /\ UNCHANGED <<stream, stamp, devTime, nextEvent, pc, frame>>
    /\ UNCHANGED <<tputVars, trimVars, regVars>>

\* Timer.mean(): trim_mean sorts elapsed_records in place
Mean ==
    /\ pc = "idle"
    /\ LET r == trim_mean(timer.elapsed_records, 1, 10)
       IN  /\ timer' = [timer EXCEPT !.elapsed_records = r.sorted]
           /\ Return([Call("mean", r.ok, timer) EXCEPT !.num = r.num, !.den = r.den])
    /\ UNCHANGED <<stream, stamp, devTime, nextEvent, pc, frame, acct>>
    /\ UNCHANGED <<tputVars, trimVars, regVars>>

\* Timer.elapsed(reset), lines 76-79: remember started_, stop a running timer,
\* then enter _get_elapsed_msec.  The call needs an end event now and a start
\* event when it restarts the timer.
ElapsedCall(reset) ==
    /\ pc = "idle"
    /\ IF timer.started_
       THEN /\ nextEvent + 1 <= MaxEvents
            /\ timer' = Timer_stop(timer, nextEvent)
            /\ Record(nextEvent)
            /\ acct' = Closes(CudaEventTimer(timer.start_event, nextEvent))
            /\ frame' = elapsed_locals(timer, reset,
                             [before |-> timer,
                              inflight |-> <<timer.start_event, nextEvent>>])
       ELSE /\ frame' = elapsed_locals(timer, reset,
                             [before |-> timer, inflight |-> <<0, 0>>])
            /\ UNCHANGED <<timer, stream, nextEvent, acct>>
    /\ pc' = "get_elapsed_msec"
    /\ UNCHANGED <<stamp, devTime, last, prev>>
    /\ UNCHANGED <<tputVars, trimVars, regVars>>

\* the CudaEventTimer that the comprehension in Timer._get_elapsed_msec has
\* reached
CurrentEventTimer == timer.event_timers[Len(frame.records) + 1]

\* one iteration of the comprehension in Timer._get_elapsed_msec, first half:
\* CudaEventTimer.get_elapsed_msec, lines 30-31, makes the current stream wait
\* for the end event and blocks the host until the device has completed it
Synchronize ==
    /\ pc = "get_elapsed_msec"
    /\ Len(frame.records) < Len(timer.event_timers)
    /\ Synchronized(CurrentEventTimer)
    /\ pc' = "elapsed_time"
    /\ UNCHANGED <<timer, stream, stamp, devTime, nextEvent, frame, last, prev, acct>>
    /\ UNCHANGED <<tputVars, trimVars, regVars>>

\* second half, line 32: get_elapsed_msec reads the elapsed time and returns
\* it to the comprehension
GetElapsedMsec ==
    /\ pc = "elapsed_time"
    /\ frame' = [frame EXCEPT !.records = Append(@, elapsed_time(CurrentEventTimer))]
    /\ pc' = "get_elapsed_msec"
    /\ UNCHANGED <<timer, stream, stamp, devTime, nextEvent, last, prev, acct>>
    /\ UNCHANGED <<tputVars, trimVars, regVars>>

\* rest of Timer.elapsed, lines 63-65 and 82-88: store the records, clear the
\* buffer, sum, reset if asked, restart if the timer was running, return
ElapsedReturn ==
    /\ pc = "get_elapsed_msec"
    /\ Len(frame.records) = Len(timer.event_timers)
    /\ LET drained == Timer_drain(timer, frame.records)
           elapsed_ == SumSeq(drained.elapsed_records)
           afterReset == IF frame.reset THEN Timer_reset(drained) ELSE drained
       IN  /\ IF frame.started_
              THEN /\ timer' = Timer_start(afterReset, nextEvent)
                   /\ Record(nextEvent)
              ELSE /\ timer' = afterReset
                   /\ UNCHANGED <<stream, nextEvent>>
           /\ Return([Call("elapsed", TRUE, frame.hist.before) EXCEPT
                         !.reset = frame.reset, !.value = elapsed_,
                         !.records = frame.records,
                         !.inflight = frame.hist.inflight])
           /\ acct' = Counts(timer.event_timers, elapsed_)
    /\ pc' = "idle"
    /\ frame' = NoFrame
    /\ UNCHANGED <<stamp, devTime>>
    /\ UNCHANGED <<tputVars, trimVars, regVars>>

\* the device reaches the oldest event of the stream, dt ticks after the
\* previous one, and timestamps it
DeviceComplete(dt) ==
    /\ stream # <<>>
    /\ devTime' = devTime + dt
    /\ stamp' = [stamp EXCEPT ![Head(stream)] = devTime + dt]
    /\ stream' = Tail(stream)
    /\ UNCHANGED <<timer, nextEvent, pc, frame, last, prev, acct>>
    /\ UNCHANGED <<tputVars, trimVars, regVars>>

(* --------------------- SynchronizedWallClockTimer ---------------------- *)
\* The registry is followed with an idle device: an event is completed as
\* soon as it is recorded, dt ticks after the previous one, so that a call of
\* elapsed() never has to wait and log() is one step.  Which names the
\* registry holds does not depend on the timestamps, so dt is always
\* DelayIdle.
Device == [nextEvent |-> nextEvent, stamp |-> stamp, devTime |-> devTime]

\* torch.cuda.Event(...).record() on the idle device
RecordNow(dev, dt) ==
    [nextEvent |-> dev.nextEvent + 1,
     stamp |-> [dev.stamp EXCEPT ![dev.nextEvent] = dev.devTime + dt],
     devTime |-> dev.devTime + dt]

SetDevice(dev) ==
    /\ nextEvent' = dev.nextEvent
    /\ stamp' = dev.stamp
    /\ devTime' = dev.devTime

\* Timer.elapsed(reset), lines 74-88, on the idle device: the timer and the
\* device it leaves and the value it returns
Timer_elapsed(self, reset, dev, dt) ==
    LET started_ == self.started_
        stopped == IF started_ THEN Timer_stop(self, dev.nextEvent) ELSE self
        dev1 == IF started_ THEN RecordNow(dev, dt) ELSE dev
        records == [i \in 1..Len(stopped.event_timers) |->
                       dev1.stamp[stopped.event_timers[i].end_event]
                         - dev1.stamp[stopped.event_timers[i].start_event]]
        drained == Timer_drain(stopped, records)
        elapsed_ == SumSeq(drained.elapsed_records)
        afterReset == IF reset THEN Timer_reset(drained) ELSE drained
    IN  [timer |-> IF started_ THEN Timer_start(afterReset, dev1.nextEvent)
                   ELSE afterReset,
         dev |-> IF started_ THEN RecordNow(dev1, dt) ELSE dev1,
         value |-> elapsed_]

\* SynchronizedWallClockTimer.__init__: self.timers = {}
NoTimers == [name \in {} |-> Timer(name)]

\* mutant of Registry_call: every lookup stores a new Timer
Registry_call_always_creates(tms, name) ==
    [n \in DOMAIN tms \cup {name} |-> IF n = name THEN Timer(n) ELSE tms[n]]

\* SynchronizedWallClockTimer.__call__(name): the registry it leaves; the
\* Timer it returns is the entry for name
Registry_call(tms, name) ==
    [n \in DOMAIN tms \cup {name} |-> IF n \in DOMAIN tms THEN tms[n] ELSE Timer(n)]

RECURSIVE log_loop(_, _, _, _, _, _, _)
\* the for loop of log, lines 116-119; string collects the " | name: value"
\* parts as [name, num, den], the value being num/den
log_loop(names, normalizer, reset, dt, tms, dev, string) ==
    IF names = <<>>
    THEN [timers |-> tms, dev |-> dev, string |-> string]
    ELSE LET name == Head(names)
         IN  IF name \in DOMAIN tms
             THEN LET e == Timer_elapsed(tms[name], reset, dev, dt)
                  IN  log_loop(Tail(names), normalizer, reset, dt,
                               [tms EXCEPT ![name] = e.timer], e.dev,
                               Append(string, [name |-> name, num |-> e.value,
                                               den |-> normalizer]))
             ELSE log_loop(Tail(names), normalizer, reset, dt, tms, dev, string)

RECURSIVE CreateAll(_, _)
CreateAll(tms, names) ==
    IF names = <<>> THEN tms
    ELSE CreateAll(Registry_call(tms, Head(names)), Tail(names))

\* mutant of log: the timers are looked up with self(name)
log_get_or_create(tms, dev, names, normalizer, reset, dt) ==
    IF ~(normalizer > 0)
    THEN [ok |-> FALSE, timers |-> tms, dev |-> dev, string |-> <<>>]
    ELSE LET r == log_loop(names, normalizer, reset, dt, CreateAll(tms, names),
                           dev, <<>>)
         IN  [ok |-> TRUE, timers |-> r.timers, dev |-> r.dev, string |-> r.string]

\* SynchronizedWallClockTimer.log(names, normalizer, reset): ok is FALSE when
\* the assertion on normalizer fails, string is what goes to log_dist
log(tms, dev, names, normalizer, reset, dt) ==
    IF ~(normalizer > 0)
    THEN [ok |-> FALSE, timers |-> tms, dev |-> dev, string |-> <<>>]
    ELSE LET r == log_loop(names, normalizer, reset, dt, tms, dev, <<>>)
         IN  [ok |-> TRUE, timers |-> r.timers, dev |-> r.dev, string |-> r.string]

RECURSIVE get_mean_loop(_, _, _, _)
\* the for loop of get_mean, lines 128-131: Timer.mean() sorts the records of
\* the timer in place and raises when there are none
get_mean_loop(names, normalizer, tms, means) ==
    IF names = <<>>
    THEN [ok |-> TRUE, timers |-> tms, means |-> means]
    ELSE LET name == Head(names)
         IN  IF name \in DOMAIN tms
             THEN LET r == trim_mean(tms[name].elapsed_records, 1, 10)
                      sorted == [tms EXCEPT ![name].elapsed_records = r.sorted]
                  IN  IF ~r.ok
                      THEN [ok |-> FALSE, timers |-> sorted, means |-> <<>>]
                      ELSE get_mean_loop(Tail(names), normalizer, sorted,
                                         Append(means, [name |-> name,
                                                        num |-> r.num * 1000,
                                                        den |-> r.den * normalizer]))
             ELSE get_mean_loop(Tail(names), normalizer, tms, means)

\* SynchronizedWallClockTimer.get_mean(names, normalizer)
get_mean(tms, names, normalizer) ==
    IF ~(normalizer > 0)
    THEN [ok |-> FALSE, timers |-> tms, means |-> <<>>]
    ELSE get_mean_loop(names, normalizer, tms, <<>>)

\* history record of a call on the registry: the name looked up, started or
\* stopped, or the names reported, and what log emitted or get_mean returned
NoRCall == [op |-> "none", name |-> "", names |-> <<>>, ok |-> TRUE, out |-> <<>>]

RegistryInit ==
    /\ timers = NoTimers
    /\ rlast = NoRCall

\* timers(name)
Lookup(name) ==
    /\ timers' = Registry_call(timers, name)
    /\ rlast' = [NoRCall EXCEPT !.op = "call", !.name = name]
    /\ UNCHANGED <<timerVars, tputVars, trimVars>>

\* start() on the Timer that an earlier lookup of name returned
RegistryStart(name, dt) ==
    /\ name \in DOMAIN timers
    /\ IF ~start_assert(timers[name])
       THEN /\ rlast' = [NoRCall EXCEPT !.op = "start", !.name = name, !.ok = FALSE]
            /\ UNCHANGED <<timers, nextEvent, stamp, devTime>>
       ELSE /\ nextEvent <= MaxEvents
            /\ timers' = [timers EXCEPT ![name] = Timer_start(@, nextEvent)]
            /\ SetDevice(RecordNow(Device, dt))
            /\ rlast' = [NoRCall EXCEPT !.op = "start", !.name = name]
    /\ UNCHANGED <<timer, stream, pc, frame, last, prev, acct>>
    /\ UNCHANGED <<tputVars, trimVars>>

\* stop() on the Timer that an earlier lookup of name returned
RegistryStop(name, dt) ==
    /\ name \in DOMAIN timers
    /\ IF ~stop_assert(timers[name])
       THEN /\ rlast' = [NoRCall EXCEPT !.op = "stop", !.name = name, !.ok = FALSE]
            /\ UNCHANGED <<timers, nextEvent, stamp, devTime>>
       ELSE /\ nextEvent <= MaxEvents
            /\ timers' = [timers EXCEPT ![name] = Timer_stop(@, nextEvent)]
            /\ SetDevice(RecordNow(Device, dt))
            /\ rlast' = [NoRCall EXCEPT !.op = "stop", !.name = name]
    /\ UNCHANGED <<timer, stream, pc, frame, last, prev, acct>>
    /\ UNCHANGED <<tputVars, trimVars>>

\* number of events log(names) creates: two for every running timer it finds
EventsOfLog(names) ==
    2 * Cardinality({i \in 1..Len(names) :
                        names[i] \in DOMAIN timers /\ timers[names[i]].started_})

\* timers.log(names, normalizer=normalizer, reset=reset)
Log(names, normalizer, reset, dt) ==
    /\ nextEvent - 1 + EventsOfLog(names) <= MaxEvents
    /\ LET r == log(timers, Device, names, normalizer, reset, dt)
       IN  /\ timers' = r.timers
           /\ SetDevice(r.dev)
           /\ rlast' = [NoRCall EXCEPT !.op = "log", !.names = names,
                                       !.ok = r.ok, !.out = r.string]
    /\ UNCHANGED <<timer, stream, pc, frame, last, prev, acct>>
    /\ UNCHANGED <<tputVars, trimVars>>

\* timers.get_mean(names, normalizer=normalizer)
GetMean(names, normalizer) ==
    /\ LET r == get_mean(timers, names, normalizer)
       IN  /\ timers' = r.timers
           /\ rlast' = [NoRCall EXCEPT !.op = "get_mean", !.names = names,
                                       !.ok = r.ok, !.out = r.means]
    /\ UNCHANGED <<timerVars, tputVars, trimVars>>

(* --------------------------- ThroughputTimer --------------------------- *)
NoRate == [kind |-> "none", num |-> 0, den |-> 0]

\* Python None for the batch_size argument
NoneBatch == 0
\* constructor arguments explored: <<batch_size, num_workers, start_step,
\* steps_per_output, monitor_memory>>
Arguments ==
    { <<NoneBatch, 4, 0, 1, FALSE>>, <<32, 4, 0, 2, TRUE>>,
      <<32, 4, 1, 1, TRUE>>,         <<NoneBatch, 4, 1, 2, FALSE>>,
      <<32, 4, 2, 1, FALSE>>,        <<32, 4, 2, 2, TRUE>> }

\* ThroughputTimer.__init__ (psutil is installed, logging_fn is recorded in tlast)
ThroughputTimer(batch_size, num_workers, start_step, steps_per_output, monitor_memory) ==
    [start_time |-> 0, end_time |-> 0, started |-> FALSE,
     batch_size |-> IF batch_size = NoneBatch THEN 1 ELSE batch_size,
     num_workers |-> num_workers, start_step |-> start_step,
     epoch_count |-> 0, local_step_count |-> 0, total_step_count |-> 0,
     total_elapsed_time |-> 0, steps_per_output |-> steps_per_output,
     monitor_memory |-> monitor_memory, initialized |-> FALSE]

\* mutant of avg_samples_per_sec: the warm-up steps are not subtracted
avg_samples_per_sec_all_steps(self) ==
    IF self.total_step_count > 0
    THEN IF self.total_elapsed_time = 0
         THEN [kind |-> "ZeroDivisionError", num |-> 0, den |-> 0]
         ELSE [kind |-> "value",
               num |-> self.batch_size * self.num_workers * self.total_step_count,
               den |-> self.total_elapsed_time]
    ELSE [kind |-> "neginf", num |-> 0, den |-> 0]

\* ThroughputTimer.avg_samples_per_sec.  kind is "neginf" for float("-inf"),
\* "ZeroDivisionError" when one of the two divisions raises, and "value" for
\* the rate num/den = samples_per_step / (total_elapsed_time / total_step_offset)
avg_samples_per_sec(self) ==
    IF self.total_step_count > 0
    THEN LET samples_per_step == self.batch_size * self.num_workers
             total_step_offset == self.total_step_count - self.start_step
         IN  IF total_step_offset = 0 \/ self.total_elapsed_time = 0
             THEN [kind |-> "ZeroDivisionError", num |-> 0, den |-> 0]
             ELSE [kind |-> "value", num |-> samples_per_step * total_step_offset,
                   den |-> self.total_elapsed_time]
    ELSE [kind |-> "neginf", num |-> 0, den |-> 0]

\* mutant of update_epoch_count: the epoch change also clears the global count
update_epoch_count_resets_total(self) ==
    [self EXCEPT !.epoch_count = @ + 1, !.local_step_count = 0,
                 !.total_step_count = 0]

\* ThroughputTimer.update_epoch_count
update_epoch_count(self) ==
    [self EXCEPT !.epoch_count = @ + 1, !.local_step_count = 0]

\* mutant of tput_start: the warm-up test is > instead of >=
tput_start_late(self, now) ==
    LET s == [self EXCEPT !.initialized = TRUE, !.started = TRUE]
    IN  IF s.total_step_count > s.start_step
        THEN [s EXCEPT !.start_time = now]
        ELSE s

\* ThroughputTimer.start at wall-clock time now
tput_start(self, now) ==
    LET s == [self EXCEPT !.initialized = TRUE, !.started = TRUE]
    IN  IF s.total_step_count >= s.start_step
        THEN [s EXCEPT !.start_time = now]
        ELSE s

\* mutant of stop_returns_early: stop() has no guard on the running flag
stop_never_returns_early(self) == FALSE

\* ThroughputTimer.stop, lines 182-183: the call returns at once
stop_returns_early(self) == ~self.started

\* mutant of tput_stop: the warm-up test is >= instead of >
tput_stop_off_by_one(self, now) ==
    LET s == [self EXCEPT !.started = FALSE, !.total_step_count = @ + 1,
                          !.local_step_count = @ + 1]
    IN  IF s.total_step_count >= s.start_step
        THEN [s EXCEPT !.end_time = now,
                       !.total_elapsed_time = @ + (now - s.start_time)]
        ELSE s

\* ThroughputTimer.stop, lines 184-191: the counters and the accumulated time
tput_stop(self, now) ==
    LET s == [self EXCEPT !.started = FALSE, !.total_step_count = @ + 1,
                          !.local_step_count = @ + 1]
    IN  IF s.total_step_count > s.start_step
        THEN [s EXCEPT !.end_time = now,
                       !.total_elapsed_time = @ + (now - s.start_time)]
        ELSE s

\* ThroughputTimer.stop, lines 192-211, on the object s left by tput_stop:
\* the lines handed to self.logging, and whether formatting the first one raised
tput_report(s, report_speed) ==
    IF s.total_step_count > s.start_step /\ s.local_step_count % s.steps_per_output = 0
    THEN LET rate == avg_samples_per_sec(s)
             raised == report_speed /\ rate.kind = "ZeroDivisionError"
             speed == IF report_speed /\ ~raised
                      THEN <<[kind |-> "speed", epoch |-> s.epoch_count,
                              step |-> s.local_step_count, rate |-> rate]>>
                      ELSE <<>>
             memory == IF s.monitor_memory /\ ~raised
                       THEN <<[kind |-> "memory", epoch |-> s.epoch_count,
                               step |-> s.local_step_count,
                               rate |-> NoRate]>>
                       ELSE <<>>
         IN  [ok |-> ~raised, lines |-> speed \o memory]
    ELSE [ok |-> TRUE, lines |-> <<>>]

\* history record of a ThroughputTimer call: whether it returned normally and
\* the lines it handed to self.logging.  Calls other than stop() log nothing
\* and are recorded alike, as "other".  For stop(), report_speed is its
\* argument and running whether it found the tracker running.
TCall(op, ok) ==
    [op |-> op, ok |-> ok, lines |-> <<>>, report_speed |-> FALSE, running |-> FALSE]

\* history of the start()/stop() cycles: startAt is the wall-clock time of the
\* start() call of the cycle in progress, d the duration shared by all cycles
\* completed so far (-1 before the first), uniform whether every call so far
\* belonged to a start()/stop() cycle and all cycles lasted d.  Nothing is
\* followed once uniform is FALSE, except recent: the wall-clock time of the
\* most recent start() call while the tracker is running, 0 while it is not.
NoCycles == [startAt |-> 0, d |-> -1, uniform |-> TRUE, recent |-> 0]
Irregular == [startAt |-> 0, d |-> -1, uniform |-> FALSE, recent |-> 0]

ThroughputInit ==
    /\ \E a \in Arguments : tput = ThroughputTimer(a[1], a[2], a[3], a[4], a[5])
    /\ tlast = TCall("other", TRUE)
    /\ clock = 0
    /\ cyc = NoCycles

\* time.time() advances
Tick ==
    /\ clock < MaxClock
    /\ clock' = clock + 1
    /\ UNCHANGED <<tput, tlast, cyc>>
    /\ UNCHANGED <<timerVars, trimVars, regVars>>

\* ThroughputTimer.update_epoch_count()
UpdateEpochCount ==
    /\ tput.epoch_count < MaxEpochs
    /\ tput' = update_epoch_count(tput)
    /\ tlast' = TCall("other", TRUE)
    /\ UNCHANGED <<clock, cyc>>
    /\ UNCHANGED <<timerVars, trimVars, regVars>>

\* ThroughputTimer.start()
TStart ==
    /\ tput.total_step_count < MaxSteps
    /\ tput' = tput_start(tput, clock)
    /\ tlast' = TCall("other", TRUE)
    /\ cyc' = IF cyc.uniform /\ ~tput.started
              THEN [cyc EXCEPT !.startAt = clock, !.recent = clock]
              ELSE [Irregular EXCEPT !.recent = clock]
    /\ UNCHANGED clock
    /\ UNCHANGED <<timerVars, trimVars, regVars>>

\* ThroughputTimer.stop(report_speed)
TStop(report_speed) ==
    /\ IF stop_returns_early(tput)
       THEN /\ tlast' = [TCall("stop", TRUE) EXCEPT !.report_speed = report_speed]
            /\ cyc' = [Irregular EXCEPT !.recent = cyc.recent]
            /\ UNCHANGED tput
       ELSE LET s == tput_stop(tput, clock)
                r == tput_report(s, report_speed)
            IN  /\ tput' = s
                /\ tlast' = [TCall("stop", r.ok) EXCEPT
                                !.lines = r.lines, !.report_speed = report_speed,
                                !.running = TRUE]
                /\ cyc' = IF cyc.uniform /\ cyc.d \in {-1, clock - cyc.startAt}
                          THEN [startAt |-> 0, d |-> clock - cyc.startAt,
                                uniform |-> TRUE, recent |-> 0]
                          ELSE Irregular
    /\ UNCHANGED clock
    /\ UNCHANGED <<timerVars, trimVars, regVars>>

\* ThroughputTimer.avg_samples_per_sec(), called by the user
AvgSamplesPerSec ==
    /\ tlast' = TCall("other", avg_samples_per_sec(tput).kind # "ZeroDivisionError")
    /\ UNCHANGED <<tput, clock, cyc>>
    /\ UNCHANGED <<timerVars, trimVars, regVars>>

(* --------------------------- specifications ---------------------------- *)
\* the ThroughputTimer is left as constructed while the named timer runs
Init ==
    /\ TimerInit
    /\ tput = ThroughputTimer(NoneBatch, 1, 0, 1, FALSE)
    /\ tlast = TCall("other", TRUE)
    /\ clock = 0
    /\ cyc = NoCycles
    /\ tm = NoTrim
    /\ RegistryInit

Next ==
    \/ Start
    \/ Stop
    \/ Reset
    \/ Mean
    \/ \E reset \in BOOLEAN : ElapsedCall(reset)
    \/ Synchronize
    \/ GetElapsedMsec
    \/ ElapsedReturn
    \/ \E dt \in Delays : DeviceComplete(dt)

Spec == Init /\ [][Next]_vars

\* The device works through its stream whatever the host does, and a host
\* thread inside elapsed() goes on running: the steps of the device and of
\* the call in progress are taken if they stay enabled.  Whether the host
\* makes a further call is left open.
Fairness ==
    /\ WF_vars(DeviceComplete(DelayFair))
    /\ WF_vars(Synchronize)
    /\ WF_vars(GetElapsedMsec)
    /\ WF_vars(ElapsedReturn)

\* Whether a call returns does not depend on the timestamps, so under
\* fairness the device takes the same time for every event.
NextFair ==
    \/ Start
    \/ Stop
    \/ Reset
    \/ Mean
    \/ \E reset \in BOOLEAN : ElapsedCall(reset)
    \/ Synchronize
    \/ GetElapsedMsec
    \/ ElapsedReturn
    \/ DeviceComplete(DelayFair)

SpecFair == Init /\ [][NextFair]_vars /\ Fairness

\* the named timer is left as constructed while the ThroughputTimer runs
InitThroughput ==
    /\ ThroughputInit
    /\ TimerInit
    /\ tm = NoTrim
    /\ RegistryInit

NextThroughput ==
    \/ Tick
    \/ UpdateEpochCount
    \/ TStart
    \/ \E report_speed \in BOOLEAN : TStop(report_speed)
    \/ AvgSamplesPerSec

SpecThroughput == InitThroughput /\ [][NextThroughput]_vars

\* trim_mean(data, trim_percent) is called on the list drawn: it sorts the
\* caller's list in place unless the assertion fails first
TrimMean ==
    /\ ~tm.called
    /\ LET r == trim_mean(tm.data, tm.pn, tm.pd)
       IN  tm' = [tm EXCEPT !.called = TRUE, !.data = r.sorted, !.ok = r.ok,
                            !.num = r.num, !.den = r.den]
    /\ UNCHANGED <<timerVars, tputVars, regVars>>

\* trim_mean on its own, for every list and trim_percent drawn
InitTrimMean ==
    /\ TrimInit
    /\ TimerInit
    /\ tput = ThroughputTimer(NoneBatch, 1, 0, 1, FALSE)
    /\ tlast = TCall("other", TRUE)
    /\ clock = 0
    /\ cyc = NoCycles
    /\ RegistryInit

NextTrimMean == TrimMean

SpecTrimMean == InitTrimMean /\ [][NextTrimMean]_vars

\* the registry on its own, with the idle device
InitRegistry ==
    /\ RegistryInit
    /\ TimerInit
    /\ tput = ThroughputTimer(NoneBatch, 1, 0, 1, FALSE)
    /\ tlast = TCall("other", TRUE)
    /\ clock = 0
    /\ cyc = NoCycles
    /\ tm = NoTrim

NextRegistry ==
    \/ \E name \in Names : Lookup(name)
    \/ \E name \in Names : RegistryStart(name, DelayIdle)
    \/ \E name \in Names : RegistryStop(name, DelayIdle)
    \/ \E names \in NameLists, normalizer \in Normalizers, reset \in BOOLEAN :
          Log(names, normalizer, reset, DelayIdle)
    \/ \E names \in NameLists, normalizer \in Normalizers : GetMean(names, normalizer)

SpecRegistry == InitRegistry /\ [][NextRegistry]_vars

(* ------------------------------- claims -------------------------------- *)
\* sum of the device-measured durations of a list of measurements
RECURSIVE SumDur(_)
SumDur(ets) == IF ets = <<>> THEN 0 ELSE elapsed_time(Head(ets)) + SumDur(Tail(ets))

\* the device has completed every end event of a list of measurements
AllCompleted(ets) == \A i \in 1..Len(ets) : Synchronized(ets[i])

\* the fields of a Timer that C1 speaks of
Protocol(t) == <<t.started_, t.start_event, t.event_timers>>

\* C1: start() on a running timer and stop() on a stopped timer fail, and the
\* failed call leaves the running flag, the held start event and the buffered
\* measurements as they were before the call.
C1_ProtocolViolationFails ==
    pc = "idle" =>
        /\ (last.op = "start" /\ last.before.started_) =>
               (~last.ok /\ Protocol(timer) = Protocol(last.before))
        /\ (last.op = "stop" /\ ~last.before.started_) =>
               (~last.ok /\ Protocol(timer) = Protocol(last.before))

\* a failed start() on a running timer that holds a buffered measurement
C1_Witness ==
    /\ pc = "idle"
    /\ last.op = "start" /\ ~last.ok /\ last.before.started_
    /\ Len(timer.event_timers) >= 1

\* C2: as long as the user has not called reset(), every interval closed so
\* far is either in exactly one elapsed() return value or still buffered, in
\* the order it was closed; the values returned so far sum to the durations of
\* the intervals counted, and together with the buffered durations to the
\* durations of all closed intervals.
C2_Additivity ==
    ~acct.explicitReset =>
        /\ acct.closed = acct.counted \o timer.event_timers
        /\ acct.returned = SumDur(acct.counted)
        /\ AllCompleted(acct.closed) =>
               acct.returned + SumDur(timer.event_timers) = SumDur(acct.closed)

\* an interval of non-zero duration has been returned by elapsed() and a
\* later, longer one is buffered and measured
C2_Witness ==
    /\ ~acct.explicitReset
    /\ pc = "idle"
    /\ Len(acct.counted) >= 1
    /\ Len(timer.event_timers) >= 1
    /\ AllCompleted(acct.closed)
    /\ elapsed_time(acct.counted[1]) > 0
    /\ SumDur(timer.event_timers) > elapsed_time(acct.counted[1])

\* C3: on a stopped timer, two elapsed(reset=False) calls in a row return the
\* same value.
C3_RepeatedReadSameValue ==
    (/\ pc = "idle"
     /\ last.op = "elapsed" /\ ~last.reset /\ ~last.before.started_
     /\ prev.op = "elapsed" /\ ~prev.reset /\ ~prev.started_)
        => last.value = prev.value

\* C4: after elapsed() with reset=True has summed n >= 1 intervals, mean()
\* succeeds and returns the 10%-trimmed mean of those n durations.
C4_MeanAfterElapsed ==
    (/\ pc = "idle"
     /\ last.op = "mean"
     /\ prev.op = "elapsed" /\ prev.reset /\ Len(prev.records) >= 1)
        => /\ last.ok
           /\ last.num = trim_mean(prev.records, 1, 10).num
           /\ last.den = trim_mean(prev.records, 1, 10).den

\* C5: reset() never fails, and elapsed() called directly after reset()
\* returns 0 from an empty list of measurements.
C5_ResetThenElapsedIsZero ==
    pc = "idle" =>
        /\ last.op = "reset" => last.ok
        /\ (last.op = "elapsed" /\ prev.op = "reset") =>
               (last.value = 0 /\ last.records = <<>>)

\* elapsed() has returned right after a reset() that found the timer running
\* with a buffered measurement
C5_Witness ==
    /\ pc = "idle"
    /\ last.op = "elapsed" /\ last.ok
    /\ prev.op = "reset" /\ prev.started_ /\ prev.buffered >= 1

\* C6: between calls the timer is running if and only if it holds a start
\* event.
C6_RunningIffStartEvent ==
    pc = "idle" => (timer.started_ <=> timer.start_event # NoneEvent)

\* a running timer between calls, after a failed start() that followed an
\* elapsed() call which restarted the timer
C6_Witness ==
    /\ pc = "idle"
    /\ timer.started_ /\ timer.start_event # NoneEvent
    /\ last.op = "start" /\ ~last.ok
    /\ prev.op = "elapsed" /\ prev.started_

\* C7: elapsed(reset) on a running timer closes the in-flight interval and
\* includes its duration in the returned sum; when it returns the timer is
\* running with a start event created by this call and no buffered
\* measurement, whatever reset is.
C7_ElapsedWhileRunning ==
    (pc = "idle" /\ last.op = "elapsed" /\ last.before.started_) =>
        /\ last.inflight[1] = last.before.start_event
        /\ Len(last.records) = Len(last.before.event_timers) + 1
        /\ last.records[Len(last.records)] =
               stamp[last.inflight[2]] - stamp[last.inflight[1]]
        /\ last.value = SumSeq(last.records)
        /\ timer.started_
        /\ timer.start_event > last.inflight[2]
        /\ timer.event_timers = <<>>

\* elapsed(False) has returned on a running timer with a non-zero in-flight
\* interval, right after elapsed(True) on the running timer
C7_Witness ==
    /\ pc = "idle"
    /\ last.op = "elapsed" /\ ~last.reset /\ last.before.started_
    /\ last.value > 0
    /\ prev.op = "elapsed" /\ prev.reset /\ prev.started_

\* C12: get_elapsed_msec() reads the elapsed time of a measurement only after
\* the wait on its end event has returned: at the read both events of the
\* measurement carry the timestamp the device gave them, and every duration
\* read so far is the difference of two such timestamps.
C12_ReadAfterEndCompleted ==
    /\ pc = "elapsed_time" =>
           /\ stamp[CurrentEventTimer.end_event] # Pending
           /\ stamp[CurrentEventTimer.start_event] # Pending
    /\ \A i \in 1..Len(frame.records) :
           LET et == timer.event_timers[i]
           IN  /\ stamp[et.start_event] # Pending /\ stamp[et.end_event] # Pending
               /\ frame.records[i] = stamp[et.end_event] - stamp[et.start_event]
               /\ frame.records[i] >= 0

\* the wait on the first of two measurements has returned while the device
\* has not yet completed the end event of the second
C12_Witness ==
    /\ pc = "elapsed_time"
    /\ Len(timer.event_timers) >= 2 /\ Len(frame.records) = 0
    /\ stamp[timer.event_timers[2].end_event] = Pending
    /\ stream # <<>>

\* the intervals closed since the previous drain, as the call c found them,
\* in the order of the stop() calls
ClosedSinceDrain(c) ==
    c.before.event_timers \o
        (IF c.before.started_
         THEN <<CudaEventTimer(c.inflight[1], c.inflight[2])>>
         ELSE <<>>)

\* C17: when elapsed() has returned, elapsed_records holds the durations of
\* the intervals closed since the previous drain, the i-th entry being the
\* duration of the i-th interval closed.  Stated for the calls that found at
\* least one such interval.
C17_RecordsInProgramOrder ==
    (pc = "idle" /\ last.op = "elapsed" /\ ClosedSinceDrain(last) # <<>>) =>
        LET ets == ClosedSinceDrain(last)
        IN  timer.elapsed_records =
                [i \in 1..Len(ets) |-> stamp[ets[i].end_event] - stamp[ets[i].start_event]]

\* C18: if the device eventually completes every recorded event, every call
\* of elapsed() eventually returns, whatever the number of buffered
\* measurements and whether or not the timer was running.
C18_ElapsedReturns == (pc # "idle") ~> (pc = "idle")

\* elapsed() was called on a running timer with a buffered measurement
\* while the device had completed none of the four events
C18_Witness ==
    /\ pc = "get_elapsed_msec"
    /\ frame.started_ /\ Len(timer.event_timers) = 2
    /\ frame.records = <<>>
    /\ Len(stream) = 4

(* claims about the ThroughputTimer, checked under SpecThroughput *)

\* C8: total_elapsed_time is 0 while total_step_count <= start_step, and a
\* stop() that counts a step with index <= start_step leaves it unchanged.
C8_WarmupExcluded ==
    /\ [](tput.total_step_count <= tput.start_step => tput.total_elapsed_time = 0)
    /\ [][(/\ tput'.total_step_count = tput.total_step_count + 1
           /\ tput'.total_step_count <= tput.start_step)
              => tput'.total_elapsed_time = tput.total_elapsed_time]_vars

\* a warm-up cycle that lasted a non-zero time has been counted
C8_Witness ==
    /\ tlast.op = "stop"
    /\ tput.total_step_count >= 1
    /\ tput.total_step_count <= tput.start_step
    /\ cyc.uniform /\ cyc.d > 0

\* C9: after N > start_step start()/stop() cycles that each lasted d > 0,
\* avg_samples_per_sec() is (batch_size * num_workers) / d.
C9_AvgAfterUniformCycles ==
    (/\ cyc.uniform /\ cyc.d > 0
     /\ ~tput.started
     /\ tput.total_step_count > tput.start_step)
        => LET rate == avg_samples_per_sec(tput)
           IN  /\ rate.kind = "value"
               /\ rate.num * cyc.d = tput.batch_size * tput.num_workers * rate.den

\* batch_size=32, num_workers=4, start_step=2, five cycles of one tick each
C9_Witness ==
    /\ cyc.uniform /\ cyc.d = 1
    /\ ~tput.started
    /\ tput.batch_size = 32 /\ tput.num_workers = 4 /\ tput.start_step = 2
    /\ tput.total_step_count = 5
    /\ avg_samples_per_sec(tput) = [kind |-> "value", num |-> 128 * 3, den |-> 3]

\* C10: avg_samples_per_sec() never fails: it is negative infinity exactly
\* when total_step_count = 0 and a rate otherwise, warm-up included.  The
\* claim is stated for the states that are still in warm-up or have
\* accumulated a non-zero time, so that no failure is owed to a counted step
\* that the wall clock measured as 0.
C10_AvgNeverFails ==
    (tput.total_step_count <= tput.start_step \/ tput.total_elapsed_time > 0) =>
        LET rate == avg_samples_per_sec(tput)
        IN  /\ rate.kind # "ZeroDivisionError"
            /\ rate.kind = "neginf" <=> tput.total_step_count = 0

\* C11: a stop(report_speed=True) on a running tracker emits a throughput
\* status line whenever the resulting local_step_count is a multiple of
\* steps_per_output.  As for C10, the claim is stated for the states that are
\* still in warm-up or have accumulated a non-zero time.
C11_ReportEveryStepsPerOutput ==
    (/\ tlast.op = "stop" /\ tlast.running /\ tlast.report_speed
     /\ tput.local_step_count % tput.steps_per_output = 0
     /\ (tput.total_step_count <= tput.start_step \/ tput.total_elapsed_time > 0))
        => \E i \in 1..Len(tlast.lines) : tlast.lines[i].kind = "speed"

\* C14: a stop() on a tracker that is not running changes no field of it and
\* logs nothing, so a second stop() after one start() counts no second step.
C14_StopNotRunningIsNoOp ==
    [][(~tput.started /\ clock' = clock /\ tlast'.op = "stop")
          => (tput' = tput /\ tlast'.lines = <<>> /\ tlast'.ok)]_vars

\* a second stop(report_speed=True), after a counted step that was reported
C14_Witness ==
    /\ tlast.op = "stop" /\ ~tlast.running /\ tlast.report_speed
    /\ tlast.lines = <<>>
    /\ tput.total_step_count > tput.start_step
    /\ tput.total_elapsed_time > 0
    /\ tput.local_step_count % tput.steps_per_output = 0

\* C15: update_epoch_count() adds one to epoch_count, sets local_step_count
\* to 0 and leaves every other field as it was, running or not.
C15_UpdateEpochCountFrame ==
    [][tput'.epoch_count # tput.epoch_count
          => tput' = [tput EXCEPT !.epoch_count = tput.epoch_count + 1,
                                  !.local_step_count = 0]]_vars

\* the epoch changed while a step past warm-up was running, after counted steps
C15_Witness ==
    /\ tput.epoch_count = 1 /\ tput.local_step_count = 0
    /\ tput.started /\ tput.start_time = cyc.recent /\ cyc.recent > 0
    /\ tput.total_step_count > tput.start_step
    /\ tput.total_elapsed_time > 0
    /\ tlast.op = "other"

\* C20: a stop() that adds a duration to total_elapsed_time subtracts the
\* start time recorded by the most recent start() call.
C20_CountedStepUsesOwnStart ==
    [][(/\ tput.started
        /\ tput'.total_step_count = tput.total_step_count + 1
        /\ tput'.total_step_count > tput.start_step)
          => /\ tput.start_time = cyc.recent
             /\ tput'.end_time = clock
             /\ tput'.total_elapsed_time =
                    tput.total_elapsed_time + (clock - cyc.recent)]_vars

\* the first counted step after a warm-up of two steps and an epoch change,
\* started later than time 0 and lasting a non-zero time
C20_Witness ==
    /\ tlast.op = "stop" /\ tlast.running
    /\ tput.start_step = 2 /\ tput.total_step_count = 3
    /\ tput.epoch_count = 1
    /\ tput.start_time > 0
    /\ tput.total_elapsed_time = tput.end_time - tput.start_time
    /\ tput.total_elapsed_time > 0

(* claims about trim_mean, checked under SpecTrimMean *)

\* number of entries of the list s equal to v
Occurrences(s, v) == Cardinality({i \in 1..Len(s) : s[i] = v})

\* the integer nearest to n * pn / pd, the even one of the two when n * pn / pd
\* lies half-way between two integers
Nearest(n, pn, pd) ==
    CHOOSE k \in 0..n :
        LET twice == 2 * (n * pn - k * pd)
            dist == IF twice < 0 THEN -twice ELSE twice
        IN  dist < pd \/ (dist = pd /\ k % 2 = 0)

\* C19: trim_mean(data, p) fails when p is outside [0, 1].  Otherwise, with
\* n = len(data) and k = round(n * p), it returns the arithmetic mean of the
\* samples sorted in ascending order with the k smallest and the k largest
\* removed, and for p = 0.1 and n >= 1 at least one sample remains (2k < n).
C19_TrimMean ==
    tm.called =>
        IF tm.pn < 0 \/ tm.pn > tm.pd
        THEN ~tm.ok /\ tm.data = tm.input
        ELSE LET n == Len(tm.input)
                 k == Nearest(n, tm.pn, tm.pd)
                 m == IF n - 2 * k > 0 THEN n - 2 * k ELSE 0
             IN  /\ tm.ok
                 /\ Len(tm.data) = n
                 /\ \A v \in Samples : Occurrences(tm.data, v) = Occurrences(tm.input, v)
                 /\ \A i \in 1..(n - 1) : tm.data[i] <= tm.data[i + 1]
                 /\ tm.den = m
                 /\ tm.num = SumSeq([i \in 1..m |-> tm.data[k + i]])
                 /\ (tm.pn * 10 = tm.pd /\ n >= 1) => (2 * k < n /\ tm.den > 0)

\* trim_mean([4, 0, 1, 4, 0], 0.1): 5 * 0.1 rounds to 0, nothing is removed
\* and the mean is 9/5
C19_Witness ==
    /\ tm.called /\ tm.ok
    /\ tm.input = <<4, 0, 1, 4, 0>> /\ tm.pn = 1 /\ tm.pd = 10
    /\ tm.data = <<0, 0, 1, 4, 4>>
    /\ tm.num = 9 /\ tm.den = 5

(* claims about the registry, checked under SpecRegistry *)

\* the names of the entries of a line of log or of a mapping of get_mean
NamesOf(out) == {out[i].name : i \in 1..Len(out)}

\* the names of the list names that the registry tms holds, in list order
RECURSIVE Present(_, _)
Present(names, tms) ==
    IF names = <<>> THEN <<>>
    ELSE IF Head(names) \in DOMAIN tms
         THEN <<Head(names)>> \o Present(Tail(names), tms)
         ELSE Present(Tail(names), tms)

\* C13: log and get_mean leave the set of names of the registry as it was,
\* what they emit or return names no absent timer (and, when the call
\* succeeds, every requested timer that is present, in the order asked), and
\* only a lookup adds a name.
C13_ReportsSkipAbsentNames ==
    [][/\ rlast'.op \in {"log", "get_mean"} =>
            /\ DOMAIN timers' = DOMAIN timers
            /\ NamesOf(rlast'.out) \subseteq DOMAIN timers
            /\ rlast'.ok =>
                   [i \in 1..Len(rlast'.out) |-> rlast'.out[i].name]
                       = Present(rlast'.names, timers)
       /\ DOMAIN timers' # DOMAIN timers =>
            /\ rlast'.op = "call"
            /\ DOMAIN timers' = DOMAIN timers \cup {rlast'.name}]_vars

\* log(["forward", "backward"], reset=False) has reported the one timer of
\* the registry, which had been running for a non-zero time
C13_Witness ==
    /\ rlast.op = "log" /\ rlast.ok
    /\ rlast.names = <<"forward", "backward">>
    /\ DOMAIN timers = {"forward"}
    /\ Len(rlast.out) = 1 /\ rlast.out[1].name = "forward" /\ rlast.out[1].num > 0
    /\ timers["forward"].started_
    /\ timers["forward"].elapsed_records # NoneRecords

\* C16: the first lookup of a name adds a stopped Timer without records for
\* it; a later lookup changes nothing, and no lookup changes the Timer of
\* another name.
C16_LookupIdempotent ==
    [][rlast'.op = "call" =>
          LET name == rlast'.name
          IN  /\ \A n \in DOMAIN timers : n \in DOMAIN timers' /\ timers'[n] = timers[n]
              /\ DOMAIN timers' = DOMAIN timers \cup {name}
              /\ name \notin DOMAIN timers =>
                     /\ ~timers'[name].started_
                     /\ timers'[name].start_event = NoneEvent
                     /\ timers'[name].event_timers = <<>>
                     /\ timers'[name].elapsed_records = NoneRecords]_vars

\* "forward" was looked up again while it was running with a buffered
\* measurement, "backward" being held as well
C16_Witness ==
    /\ rlast.op = "call" /\ rlast.name = "forward"
    /\ DOMAIN timers = {"forward", "backward"}
    /\ timers["forward"].started_
    /\ Len(timers["forward"].event_timers) = 1
    /\ timers["backward"].started_

====
